---------------------------- MODULE Spec2Model ----------------------------
(***************************************************************************)
(* A model of packages/core/src/utils.ts: the state-value engine           *)
(* (toStatePath, pathToStateValue, toStateValue, matchesState,             *)
(* toStatePaths) and the event and config normalizer (getEventType,        *)
(* toEventObject, isSCXMLEvent, toSCXMLEvent, normalizeTarget, uniqueId).  *)
(*                                                                         *)
(* JavaScript values are tagged records.  A string is a sequence of text   *)
(* atoms: an atom is a delimiter character, a digit, or a piece of text    *)
(* that holds no delimiter ("a", "type").  An object is the sequence of    *)
(* its own enumerable properties <<key, value>> in insertion order, keys   *)
(* being untagged strings.  Property names range over the atoms below;     *)
(* names of members of Object.prototype are not among them, so `k in o`    *)
(* is modelled on own properties.                                          *)
(***************************************************************************)
EXTENDS Integers, Sequences, FiniteSets, TLC

VARIABLES
    call,       \* the call in progress: [op, args]
    ret,        \* its outcome: Pending, [t |-> "return", v], [t |-> "throw", e]
    hist,       \* completed <<call, ret>> whose result was fed to `call`
    currentId,  \* uniqueId's closure counter (utils.ts:347)
    issued      \* the identifiers uniqueId has returned, in call order

vars == <<call, ret, hist, currentId, issued>>

(***************************************************************************)
(* Bounds of the model.                                                    *)
(***************************************************************************)
MaxKeys == 2

MaxPathLen == 2

MaxCalls == 17

(***************************************************************************)
(* JavaScript values.                                                      *)
(***************************************************************************)
Undefined == [t |-> "undefined"]

Null == [t |-> "null"]

Str(s) == [t |-> "string", s |-> s]

Num(n) == [t |-> "number", n |-> n]

Bool(b) == [t |-> "boolean", b |-> b]

Obj(props) == [t |-> "object", props |-> props]

Arr(a) == [t |-> "array", a |-> a]

\* A StateNode instance: an object of a class, told apart by identity.
StateNodeRef(id) == [t |-> "statenode", id |-> id]

Pending == [t |-> "pending"]

Return(v) == [t |-> "return", v |-> v]

Throw(e) == [t |-> "throw", e |-> e]

\* import { STATE_DELIMITER } from './constants'
STATE_DELIMITER == "."

\* import { TARGETLESS_KEY } from './constants'
TARGETLESS_KEY == Str(<<>>)

isArray(value) == value.t = "array"

isString(value) == value.t = "string"

\* typeof value === 'object' (null included)
isObjectType(value) == value.t \in {"object", "array", "null", "statenode"}

\* !value
Falsy(value) ==
    \/ value.t \in {"undefined", "null"}
    \/ value.t = "string" /\ value.s = <<>>
    \/ value.t = "number" /\ value.n = 0
    \/ value.t = "boolean" /\ ~value.b

\* Object.keys(value): the own enumerable string keys, in insertion order.
keys(value) ==
    IF value.t = "object"
    THEN [i \in 1..Len(value.props) |-> value.props[i][1]]
    ELSE <<>>

HasOwn(value, key) ==
    /\ value.t = "object"
    /\ \E i \in 1..Len(value.props) : value.props[i][1] = key

\* value[key]
Get(value, key) ==
    IF HasOwn(value, key)
    THEN value.props[CHOOSE i \in 1..Len(value.props) : value.props[i][1] = key][2]
    ELSE Undefined

\* `key in value`, for a value that is an object
In(key, value) == HasOwn(value, key)

\* { ...props, [key]: v }: an existing key keeps its place
SetProp(props, key, v) ==
    IF \E i \in 1..Len(props) : props[i][1] = key
    THEN [i \in 1..Len(props) |->
            IF props[i][1] = key THEN <<key, v>> ELSE props[i]]
    ELSE Append(props, <<key, v>>)

RECURSIVE SpreadInto(_, _)
\* { ...target, ...source } on property lists
SpreadInto(target, source) ==
    IF source = <<>> THEN target
    ELSE SpreadInto(SetProp(target, source[1][1], source[1][2]), Tail(source))

(***************************************************************************)
(* State Value Engine.                                                     *)
(***************************************************************************)
RECURSIVE split(_, _)
\* String.prototype.split(separator), separator one character
split(s, separator) ==
    IF \A i \in 1..Len(s) : s[i] # separator
    THEN <<Str(s)>>
    ELSE LET i == CHOOSE j \in 1..Len(s) :
                    /\ s[j] = separator
                    /\ \A k \in 1..(j - 1) : s[k] # separator
         IN  <<Str(SubSeq(s, 1, i - 1))>> \o split(SubSeq(s, i + 1, Len(s)), separator)

toStatePath(stateId, delimiter) ==
    IF isArray(stateId) THEN stateId
    ELSE Arr(split(stateId.s, delimiter))

isStateLike(state) ==
    /\ isObjectType(state)
    /\ In(<<"value">>, state)
    /\ In(<<"context">>, state)
    /\ In(<<"event">>, state)
    /\ In(<<"_event">>, state)

RECURSIVE BuildPath(_, _)
\* The loop of pathToStateValue from index i (1-based) on: the object
\* `marker` refers to once the loop has run.
BuildPath(statePath, i) ==
    IF i > Len(statePath) - 1 THEN Obj(<<>>)
    ELSE IF i = Len(statePath) - 1
         THEN Obj(<< <<statePath[i].s, statePath[i + 1]>> >>)
         ELSE Obj(<< <<statePath[i].s, BuildPath(statePath, i + 1)>> >>)

pathToStateValue_NoSingle(statePath) == BuildPath(statePath.a, 1)

pathToStateValue(statePath) ==
    IF Len(statePath.a) = 1 THEN statePath.a[1]
    ELSE BuildPath(statePath.a, 1)

toStateValue(stateValue, delimiter) ==
    IF isStateLike(stateValue) THEN Get(stateValue, <<"value">>)
    ELSE IF isArray(stateValue) THEN pathToStateValue(stateValue)
    ELSE IF ~isString(stateValue) THEN stateValue
    ELSE pathToStateValue(toStatePath(stateValue, delimiter))

AtomicMatch_Never(parentStateValue, childStateValue) == FALSE

\* utils.ts:41-48, the child a string
AtomicMatch(parentStateValue, childStateValue) ==
    IF isString(parentStateValue)
    THEN childStateValue = parentStateValue
    ELSE FALSE

ParentInChild_Deep(parentStateValue, childStateValue) ==
    \/ In(parentStateValue.s, childStateValue)
    \/ \E i \in 1..Len(childStateValue.props) :
          /\ childStateValue.props[i][2].t = "object"
          /\ In(parentStateValue.s, childStateValue.props[i][2])

\* utils.ts:50-52, the parent a string and the child not
ParentInChild(parentStateValue, childStateValue) ==
    In(parentStateValue.s, childStateValue)

RECURSIVE matchesState(_, _, _)
matchesState(parentStateId, childStateId, delimiter) ==
    LET parentStateValue == toStateValue(parentStateId, delimiter)
        childStateValue == toStateValue(childStateId, delimiter)
    IN  IF isString(childStateValue)
        THEN AtomicMatch(parentStateValue, childStateValue)
        ELSE IF isString(parentStateValue)
        THEN ParentInChild(parentStateValue, childStateValue)
        ELSE \A i \in 1..Len(keys(parentStateValue)) :
                LET key == keys(parentStateValue)[i]
                IN  IF ~In(key, childStateValue) THEN FALSE
                    ELSE matchesState(Get(parentStateValue, key),
                                      Get(childStateValue, key),
                                      STATE_DELIMITER)

\* only the first element is spread into concat
flatten_First(array) ==
    IF array = <<>> THEN <<>> ELSE array[1].a

RECURSIVE flatten(_)
\* [].concat(...array), every element an array
flatten(array) ==
    IF array = <<>> THEN <<>>
    ELSE array[1].a \o flatten(Tail(array))

\* utils.ts:207-210
IsChildlessLeaf(subStateValue) ==
    /\ ~isString(subStateValue)
    /\ (Falsy(subStateValue) \/ Len(keys(subStateValue)) = 0)

RECURSIVE toStatePaths(_)
toStatePaths(stateValue) ==
    IF Falsy(stateValue) THEN Arr(<<Arr(<<>>)>>)
    ELSE IF isString(stateValue) THEN Arr(<<Arr(<<stateValue>>)>>)
    ELSE Arr(flatten(
            [i \in 1..Len(keys(stateValue)) |->
                LET key == keys(stateValue)[i]
                    subStateValue == Get(stateValue, key)
                IN  IF IsChildlessLeaf(subStateValue)
                    THEN Arr(<<Arr(<<Str(key)>>)>>)
                    ELSE LET sub == toStatePaths(subStateValue).a
                         IN  Arr([j \in 1..Len(sub) |->
                                    Arr(<<Str(key)>> \o sub[j].a)])]))

(***************************************************************************)
(* Event & Config Normalizer.                                              *)
(***************************************************************************)
toArrayStrict(value) ==
    IF isArray(value) THEN value ELSE Arr(<<value>>)

toArray_AlwaysWrap(value) ==
    IF value = Undefined THEN Arr(<<>>) ELSE Arr(<<value>>)

toArray(value) ==
    IF value = Undefined THEN Arr(<<>>) ELSE toArrayStrict(value)

DigitChars == <<"0", "1", "2", "3", "4", "5", "6", "7", "8", "9",
                "a", "b", "c", "d", "e", "f">>

RECURSIVE NumberToString_Decimal(_, _)
\* toString() called without the radix
NumberToString_Decimal(n, radix) ==
    IF n < 10 THEN <<DigitChars[n + 1]>>
    ELSE NumberToString_Decimal(n \div 10, radix) \o <<DigitChars[(n % 10) + 1]>>

RECURSIVE NumberToString(_, _)
\* Number.prototype.toString(radix) of a non-negative integer
NumberToString(n, radix) ==
    IF n < radix THEN <<DigitChars[n + 1]>>
    ELSE NumberToString(n \div radix, radix) \o <<DigitChars[(n % radix) + 1]>>

\* `${event}` of a string or a number
TemplateString(value) ==
    IF isString(value) THEN value ELSE Str(NumberToString(value.n, 10))

\* value.type: reading a property of undefined or null throws a TypeError
ReadType(value) ==
    IF value.t \in {"undefined", "null"} THEN Throw("TypeError")
    ELSE Return(Get(value, <<"type">>))

getEventType(event) ==
    LET tried == IF isString(event) \/ event.t = "number"
                 THEN Return(TemplateString(event))
                 ELSE ReadType(event)
    IN  IF tried.t = "throw"
        THEN Throw("Events must be strings or objects with a string event.type property.")
        ELSE tried

\* { type: event, ...payload }
toEventObject(event, payload) ==
    IF isString(event)
    THEN Obj(SpreadInto(<< <<<<"type">>, event>> >>,
                        IF payload.t = "object" THEN payload.props ELSE <<>>))
    ELSE event

\* `'$$type' in event` throws a TypeError when event is not an object
isSCXMLEvent(event) ==
    IF isString(event) THEN Return(Bool(FALSE))
    ELSE IF ~isObjectType(event) \/ event.t = "null" THEN Throw("TypeError")
    ELSE Return(Bool(/\ In(<<"$$type">>, event)
                     /\ Get(event, <<"$$type">>) = Str(<<"scxml">>)))

toSCXMLEvent(event, scxmlEvent) ==
    LET wrapped == isSCXMLEvent(event)
        eventObject == toEventObject(event, Undefined)
    IN  IF wrapped.t = "throw" THEN wrapped
        ELSE IF wrapped.v.b THEN Return(event)
        ELSE Return(Obj(SpreadInto(
                << <<<<"name">>, Get(eventObject, <<"type">>)>>,
                   <<<<"data">>, eventObject>>,
                   <<<<"$$type">>, Str(<<"scxml">>)>>,
                   <<<<"type">>, Str(<<"external">>)>> >>,
                IF scxmlEvent.t = "object" THEN scxmlEvent.props ELSE <<>>)))

normalizeTarget(target) ==
    IF target = Undefined \/ target = TARGETLESS_KEY THEN Undefined
    ELSE toArray(target)

(***************************************************************************)
(* The calls of the state-value engine that are explored.                  *)
(***************************************************************************)
Delimiters == {".", "/"}

OtherDelimiter(d) == IF d = "." THEN "/" ELSE "."

\* Atomic names given inside state values
LeafStrings == {<<>>, <<"a">>, <<"b">>, <<"a", ".", "b">>}

RECURSIVE ValuesWithKeys(_)
\* The state values with exactly m keys over the regions a and b.
ValuesWithKeys(m) ==
    IF m = 0 THEN {Str(s) : s \in LeafStrings} \cup {Obj(<<>>)}
    ELSE {Obj(<< <<k, v>> >>) : k \in {<<"a">>, <<"b">>}, v \in ValuesWithKeys(m - 1)}
         \cup UNION {
            {Obj(<< <<<<"a">>, v1>>, <<<<"b">>, v2>> >>) :
                v1 \in ValuesWithKeys(i), v2 \in ValuesWithKeys(m - 2 - i)} :
            i \in 0..(m - 2)}

StateValues == UNION {ValuesWithKeys(m) : m \in 0..MaxKeys}

\* The same object with its properties inserted in the opposite order
Reversed(v) ==
    IF v.t = "object"
    THEN Obj([i \in 1..Len(v.props) |-> v.props[Len(v.props) + 1 - i]])
    ELSE v

\* Path segments that do not hold the delimiter d
Segments(d) == {<<>>, <<"a">>, <<"b">>, <<"b", OtherDelimiter(d), "a">>}

RECURSIVE PathsOfLen(_, _)
PathsOfLen(S, n) ==
    IF n = 0 THEN {<<>>}
    ELSE {<<Str(s)>> \o p : s \in S, p \in PathsOfLen(S, n - 1)}

Paths(S, lo, hi) == UNION {PathsOfLen(S, n) : n \in lo..hi}

RECURSIVE Join(_, _)
\* Array.prototype.join(d) of a path
Join(p, d) ==
    IF Len(p) = 0 THEN <<>>
    ELSE IF Len(p) = 1 THEN p[1].s
    ELSE p[1].s \o <<d>> \o Join(Tail(p), d)

\* Mappings with an absent sub-value
AbsentSubValues ==
    { Obj(<< <<<<"a">>, Undefined>> >>),
      Obj(<< <<<<"a">>, Undefined>>, <<<<"b">>, Str(<<"a">>)>> >>),
      Obj(<< <<<<"b">>, Obj(<< <<<<"a">>, Undefined>> >>)>> >>) }

ToStatePathsInputs ==
    StateValues \cup {Reversed(w) : w \in StateValues}
                \cup AbsentSubValues \cup {Undefined}

InitState ==
    /\ \/ \E q \in StateValues, a \in StateValues :
             call = [op |-> "matchesState", args |-> <<q, a, STATE_DELIMITER>>]
       \/ \E d \in Delimiters :
             \E p \in Paths(Segments(d), 1, MaxPathLen),
                q \in Paths(Segments(d), 1, MaxPathLen) :
                call = [op |-> "matchesState",
                        args |-> <<Str(Join(p, d)), Str(Join(q, d)), d>>]
       \/ \E v \in ToStatePathsInputs :
             call = [op |-> "toStatePaths", args |-> <<v>>]
       \/ \E p \in Paths(LeafStrings, 0, MaxPathLen + 1) :
             call = [op |-> "pathToStateValue", args |-> <<Arr(p)>>]
    /\ ret = Pending
    /\ hist = <<>>
    /\ currentId = 0
    /\ issued = <<>>

MatchesState ==
    /\ call.op = "matchesState"
    /\ ret = Pending
    /\ ret' = Return(Bool(matchesState(call.args[1], call.args[2], call.args[3])))
    /\ UNCHANGED <<call, hist, currentId, issued>>

ToStatePaths ==
    /\ call.op = "toStatePaths"
    /\ ret = Pending
    /\ ret' = Return(toStatePaths(call.args[1]))
    /\ UNCHANGED <<call, hist, currentId, issued>>

PathToStateValue ==
    /\ call.op = "pathToStateValue"
    /\ ret = Pending
    /\ ret' = Return(pathToStateValue(call.args[1]))
    /\ UNCHANGED <<call, hist, currentId, issued>>

\* toStatePaths(pathToStateValue(p)): the value built is enumerated
EnumerateBuiltValue ==
    /\ call.op = "pathToStateValue"
    /\ ret.t = "return"
    /\ hist = <<>>
    /\ hist' = <<[call |-> call, ret |-> ret]>>
    /\ call' = [op |-> "toStatePaths", args |-> <<ret.v>>]
    /\ ret' = Pending
    /\ UNCHANGED <<currentId, issued>>

NextState ==
    \/ MatchesState
    \/ ToStatePaths
    \/ PathToStateValue
    \/ EnumerateBuiltValue

SpecState == InitState /\ [][NextState]_vars

(***************************************************************************)
(* The state values of the data model, as the properties below read them:  *)
(* Atomic(name), or Compound(regions) with regions a mapping from region   *)
(* name to state value.                                                    *)
(***************************************************************************)
Atomic(name) == [kind |-> "Atomic", name |-> name]

Compound(regions) == [kind |-> "Compound", regions |-> regions]

\* The places of the delimiter d in the string s, with both ends
Cuts(s, d) == {0, Len(s) + 1} \cup {i \in 1..Len(s) : s[i] = d}

NthCut(s, d, n) ==
    CHOOSE c \in Cuts(s, d) : Cardinality({x \in Cuts(s, d) : x < c}) = n - 1

\* The path a delimiter-joined string stands for
SegmentsOf(s, d) ==
    [n \in 1..(Cardinality(Cuts(s, d)) - 1) |->
        SubSeq(s, NthCut(s, d, n) + 1, NthCut(s, d, n + 1) - 1)]

RECURSIVE ChainOf(_)
ChainOf(segments) ==
    IF Len(segments) = 1 THEN Atomic(segments[1])
    ELSE Compound([k \in {segments[1]} |-> ChainOf(Tail(segments))])

RECURSIVE Normalized(_)
\* The normalized value: every string read as a period-joined path
Normalized(v) ==
    IF v.t = "string" THEN ChainOf(SegmentsOf(v.s, "."))
    ELSE Compound([k \in {v.props[i][1] : i \in 1..Len(v.props)} |->
                      Normalized(Get(v, k))])

RECURSIVE Refines(_, _)
\* The refinement relation R(q, a) of the matching rules
Refines(q, a) ==
    IF a.kind = "Atomic" THEN q.kind = "Atomic" /\ q.name = a.name
    ELSE IF q.kind = "Atomic" THEN q.name \in DOMAIN a.regions
    ELSE \A k \in DOMAIN q.regions :
            /\ k \in DOMAIN a.regions
            /\ Refines(q.regions[k], a.regions[k])

IsPrefix(p, q) == Len(p) <= Len(q) /\ SubSeq(q, 1, Len(p)) = p

Returned(op) == call.op = op /\ ret.t = "return"

\* C1: with the default delimiter, matchesState(q, a) is the refinement
\* relation R on the normalized values of q and a: an Atomic a is matched by
\* the same Atomic only, a Compound a by an Atomic q naming one of its keys,
\* or by a Compound q all of whose keys are keys of a with matching sub-values.
C1_MatchesStateIsRefinement ==
    (Returned("matchesState") /\ call.args[3] = STATE_DELIMITER) =>
        ret.v.b = Refines(Normalized(call.args[1]), Normalized(call.args[2]))

C1_Witness ==
    /\ Returned("matchesState")
    /\ call.args[1] = Obj(<< <<<<"a">>, Str(<<"a">>)>> >>)
    /\ call.args[2] = Obj(<< <<<<"a">>, Str(<<"a", ".", "b">>)>>, <<<<"b">>, Obj(<<>>)>> >>)
    /\ ret.v.b

\* C2: for a delimiter d and paths p, q whose segments do not hold d,
\* matchesState(join(p, d), join(q, d), d) is true exactly when p is a
\* prefix of q.
C2_DelimiterPrefix ==
    (Returned("matchesState") /\ isString(call.args[1]) /\ isString(call.args[2])) =>
        ret.v.b = IsPrefix(SegmentsOf(call.args[1].s, call.args[3]),
                           SegmentsOf(call.args[2].s, call.args[3]))

\* C3: matchesState(v, v) is true for every state value v.
C3_Reflexive ==
    (Returned("matchesState") /\ call.args[1] = call.args[2]) => ret.v.b

C3_Witness ==
    /\ Returned("matchesState")
    /\ call.args[1] = Obj(<< <<<<"a">>, Obj(<<>>)>>, <<<<"b">>, Str(<<"a", ".", "b">>)>> >>)
    /\ call.args[2] = call.args[1]
    /\ ret.v.b

\* A state value: a string, or a mapping whose sub-values are state values
\* or absent
RECURSIVE IsStateValue(_)
IsStateValue(v) ==
    \/ v.t = "string"
    \/ /\ v.t = "object"
       /\ \A i \in 1..Len(v.props) :
             v.props[i][2] = Undefined \/ IsStateValue(v.props[i][2])

\* A sub-value that is empty (an empty mapping or an empty string) or absent
EmptySubValue(v) ==
    \/ v = Undefined
    \/ v.t = "object" /\ v.props = <<>>
    \/ v.t = "string" /\ v.s = <<>>

RECURSIVE LeafPaths(_)
RECURSIVE LeafPathsFrom(_, _)
\* The leaf paths of the keys i.. of the mapping v, in key order
LeafPathsFrom(v, i) ==
    IF i > Len(v.props) THEN <<>>
    ELSE LET key == v.props[i][1]
             sub == v.props[i][2]
             here == IF EmptySubValue(sub) THEN << <<key>> >>
                     ELSE [j \in 1..Len(LeafPaths(sub)) |->
                              <<key>> \o LeafPaths(sub)[j]]
         IN  here \o LeafPathsFrom(v, i + 1)

\* One path per active leaf: [name] for Atomic(name), and for a Compound
\* [key] for a key with an empty or absent sub-value, else key before each
\* leaf path of the sub-value
LeafPaths(v) ==
    IF v.t = "string" THEN << <<v.s>> >> ELSE LeafPathsFrom(v, 1)

RECURSIVE HasParallelRegions(_)
\* Some Compound anywhere in v has more than one key
HasParallelRegions(v) ==
    /\ v.t = "object"
    /\ \/ Len(v.props) > 1
       \/ \E i \in 1..Len(v.props) : HasParallelRegions(v.props[i][2])

\* A string[][] as a sequence of sequences of strings
Untagged(paths) ==
    [i \in 1..Len(paths.a) |-> [j \in 1..Len(paths.a[i].a) |-> paths.a[i].a[j].s]]

\* C4 as stated: for every state value v, toStatePaths(v) is the list of
\* leaf paths of v ([name] for Atomic(name)), with more than one entry
\* exactly when some Compound in v has more than one key.
C4_LeafPathsAsStated ==
    (Returned("toStatePaths") /\ IsStateValue(call.args[1])) =>
        /\ Untagged(ret.v) = LeafPaths(call.args[1])
        /\ (Len(ret.v.a) > 1) = HasParallelRegions(call.args[1])

\* C4 amended: the same for every state value v other than the empty
\* string, for which toStatePaths returns the single empty path.
C4_LeafPaths ==
    (Returned("toStatePaths") /\ IsStateValue(call.args[1])) =>
        /\ Untagged(ret.v) =
              IF call.args[1] = Str(<<>>) THEN << <<>> >>
              ELSE LeafPaths(call.args[1])
        /\ (Len(ret.v.a) > 1) = HasParallelRegions(call.args[1])

C4_Witness ==
    /\ Returned("toStatePaths")
    /\ call.args[1] = Obj(<< <<<<"b">>, Str(<<"a", ".", "b">>)>>, <<<<"a">>, Obj(<<>>)>> >>)
    /\ Untagged(ret.v) = << <<<<"b">>, <<"a", ".", "b">>>>, <<<<"a">>>> >>

RECURSIVE IsChainOf(_, _, _)
\* v is the chain of single-key Compounds for the segments i.. of path p
IsChainOf(v, p, i) ==
    /\ v.t = "object"
    /\ Len(v.props) = 1
    /\ v.props[1][1] = p[i].s
    /\ IF i = Len(p) - 1 THEN v.props[1][2] = p[i + 1]
       ELSE IsChainOf(v.props[1][2], p, i + 1)

RECURSIVE HasEmptyMapping(_)
HasEmptyMapping(v) ==
    /\ v.t = "object"
    /\ \/ v.props = <<>>
       \/ \E i \in 1..Len(v.props) : HasEmptyMapping(v.props[i][2])

\* A non-empty path of non-empty segments
ProperPath(p) ==
    /\ Len(p.a) >= 1
    /\ \A i \in 1..Len(p.a) : p.a[i].s # <<>>

\* C10: for a non-empty path p of non-empty segments, pathToStateValue(p) is
\* Atomic(p[0]) when p has one element and otherwise a chain of single-key
\* Compounds without an empty mapping, and toStatePaths of it is [p].
C10_PathRoundTrip ==
    (/\ Returned("toStatePaths")
     /\ hist # <<>>
     /\ ProperPath(hist[1].call.args[1])) =>
        LET p == hist[1].call.args[1]
            built == hist[1].ret.v
        IN  /\ IF Len(p.a) = 1 THEN built = p.a[1] ELSE IsChainOf(built, p.a, 1)
            /\ ~HasEmptyMapping(built)
            /\ call.args[1] = built
            /\ ret.v = Arr(<<p>>)

C10_Witness ==
    /\ Returned("toStatePaths")
    /\ hist # <<>>
    /\ hist[1].call.args[1] = Arr(<<Str(<<"a">>), Str(<<"b">>), Str(<<"a">>)>>)
    /\ ret.v = Arr(<<hist[1].call.args[1]>>)

(***************************************************************************)
(* The calls of the normalizer that are explored.                          *)
(***************************************************************************)
\* Raw events: bare strings and numbers, records with a type field
RawEvents ==
    { Str(<<"a">>), Num(0), Num(5), Num(12),
      Obj(<< <<<<"type">>, Str(<<"a">>)>> >>),
      Obj(<< <<<<"type">>, Str(<<"b">>)>>, <<<<"a">>, Str(<<"b">>)>> >>) }

\* Values that are no raw event
MalformedEvents ==
    { Obj(<<>>), Obj(<< <<<<"a">>, Str(<<"b">>)>> >>), Undefined, Null, Bool(TRUE) }

Payloads ==
    { Undefined,
      Obj(<< <<<<"a">>, Str(<<"b">>)>> >>),
      Obj(<< <<<<"b">>, Num(5)>>, <<<<"a">>, Str(<<"a">>)>> >>) }

Overrides ==
    { Undefined,
      Obj(<< <<<<"type">>, Str(<<"internal">>)>> >>),
      Obj(<< <<<<"origin">>, Str(<<"a">>)>> >>) }

Targets ==
    { Undefined, TARGETLESS_KEY, Str(<<"a">>), StateNodeRef(1),
      Arr(<<>>), Arr(<<Str(<<"a">>)>>), Arr(<<Str(<<"a">>), StateNodeRef(1)>>),
      Arr(<<StateNodeRef(1), StateNodeRef(2)>>) }

EventCalls ==
    {[op |-> "getEventType", args |-> <<e>>] : e \in RawEvents \cup MalformedEvents}
    \cup {[op |-> "toEventObject", args |-> <<e, p>>] : e \in RawEvents, p \in Payloads}
    \cup {[op |-> "toSCXMLEvent", args |-> <<e, o>>] : e \in RawEvents, o \in Overrides}
    \cup {[op |-> "normalizeTarget", args |-> <<t>>] : t \in Targets}

InitEvent ==
    /\ call \in EventCalls
    /\ ret = Pending
    /\ hist = <<>>
    /\ currentId = 0
    /\ issued = <<>>

GetEventType ==
    /\ call.op = "getEventType"
    /\ ret = Pending
    /\ ret' = getEventType(call.args[1])
    /\ UNCHANGED <<call, hist, currentId, issued>>

ToEventObject ==
    /\ call.op = "toEventObject"
    /\ ret = Pending
    /\ ret' = Return(toEventObject(call.args[1], call.args[2]))
    /\ UNCHANGED <<call, hist, currentId, issued>>

ToSCXMLEvent ==
    /\ call.op = "toSCXMLEvent"
    /\ ret = Pending
    /\ ret' = toSCXMLEvent(call.args[1], call.args[2])
    /\ UNCHANGED <<call, hist, currentId, issued>>

\* toSCXMLEvent(toSCXMLEvent(e), o): the envelope returned is wrapped again
WrapAgain ==
    /\ call.op = "toSCXMLEvent"
    /\ ret.t = "return"
    /\ hist = <<>>
    /\ \E o \in Overrides :
          call' = [op |-> "toSCXMLEvent", args |-> <<ret.v, o>>]
    /\ hist' = <<[call |-> call, ret |-> ret]>>
    /\ ret' = Pending
    /\ UNCHANGED <<currentId, issued>>

NormalizeTarget ==
    /\ call.op = "normalizeTarget"
    /\ ret = Pending
    /\ ret' = Return(normalizeTarget(call.args[1]))
    /\ UNCHANGED <<call, hist, currentId, issued>>

\* utils.ts:349-352; a call can come at any time
UniqueId ==
    /\ currentId < MaxCalls
    /\ currentId' = currentId + 1
    /\ issued' = Append(issued, Str(NumberToString(currentId', 16)))
    /\ UNCHANGED <<call, ret, hist>>

NextEvent ==
    \/ GetEventType
    \/ ToEventObject
    \/ ToSCXMLEvent
    \/ WrapAgain
    \/ NormalizeTarget
    \/ UniqueId

SpecEvent == InitEvent /\ [][NextEvent]_vars

Init == InitState \/ InitEvent

Next == NextState \/ NextEvent

Spec == Init /\ [][Next]_vars

DigitValue(c) == (CHOOSE i \in 1..16 : DigitChars[i] = c) - 1

RECURSIVE ValueOf(_, _)
\* The integer a string of digits denotes in the given radix
ValueOf(s, radix) ==
    IF s = <<>> THEN 0
    ELSE ValueOf(SubSeq(s, 1, Len(s) - 1), radix) * radix + DigitValue(s[Len(s)])

IsNumeral(s, radix) ==
    /\ s # <<>>
    /\ \A i \in 1..Len(s) :
          \E d \in 1..radix : DigitChars[d] = s[i]

DecimalNumerals ==
    {<<DigitChars[d]>> : d \in 1..10}
    \cup {<<DigitChars[d], DigitChars[e]>> : d \in 2..10, e \in 1..10}

\* A bare event as a string: a string is itself, a number its decimal numeral
Stringified(e) ==
    IF e.t = "string" THEN e.s
    ELSE CHOOSE s \in DecimalNumerals : ValueOf(s, 10) = e.n

Finished(op) == call.op = op /\ ret # Pending

\* C5: for every raw event e and overrides o, toSCXMLEvent(e) returns an
\* envelope and toSCXMLEvent(toSCXMLEvent(e), o) returns that envelope
\* unchanged.
C5_IdempotentWrap ==
    /\ (/\ Finished("toSCXMLEvent")
        /\ hist = <<>>
        /\ call.args[1] \in RawEvents
        /\ call.args[2] = Undefined) => ret.t = "return"
    /\ (/\ Finished("toSCXMLEvent")
        /\ hist # <<>>
        /\ hist[1].call.args[1] \in RawEvents
        /\ hist[1].call.args[2] = Undefined) => ret = hist[1].ret

\* C6: every call of uniqueId adds one to the counter and returns its
\* hexadecimal numeral, so the identifiers returned, read as hexadecimal
\* integers, increase strictly in call order and no two are the same.
C6_UniqueIdMonotonic ==
    /\ currentId = Len(issued)
    /\ \A i \in 1..Len(issued) :
          /\ IsNumeral(issued[i].s, 16)
          /\ ValueOf(issued[i].s, 16) = i
    /\ \A i \in 1..Len(issued) : \A j \in 1..Len(issued) :
          i < j => /\ ValueOf(issued[i].s, 16) < ValueOf(issued[j].s, 16)
                   /\ issued[i] # issued[j]

C6_Witness ==
    /\ Len(issued) = MaxCalls
    /\ issued[10] = Str(<<"a">>)
    /\ issued[16] = Str(<<"1", "0">>)

\* C7: toEventObject(event, payload) returns, for a string or a number, a
\* record whose type is the stringified event and which carries the payload
\* fields; a structured event is returned unchanged.
C7_ToEventObject ==
    Finished("toEventObject") =>
        LET event == call.args[1]
            payload == call.args[2]
        IN  IF event.t \in {"string", "number"}
            THEN /\ ret.t = "return"
                 /\ ret.v.t = "object"
                 /\ Get(ret.v, <<"type">>) = Str(Stringified(event))
                 /\ \A i \in 1..Len(keys(payload)) :
                       Get(ret.v, keys(payload)[i]) = Get(payload, keys(payload)[i])
            ELSE ret = Return(event)

\* C8: getEventType(event) returns the stringified event for a string or a
\* number, the type field of a structured event that has one, and raises an
\* error for every other shape.
C8_GetEventType ==
    Finished("getEventType") =>
        LET event == call.args[1]
        IN  IF event.t \in {"string", "number"}
            THEN ret = Return(Str(Stringified(event)))
            ELSE IF HasOwn(event, <<"type">>)
            THEN ret = Return(Get(event, <<"type">>))
            ELSE ret.t = "throw"

\* C9 as stated: normalizeTarget(target) is undefined exactly when target is
\* undefined or the targetless sentinel, and for every other target, an
\* array with no elements included, an array of at least one element.
C9_NormalizeTargetAsStated ==
    Finished("normalizeTarget") =>
        IF call.args[1] \in {Undefined, TARGETLESS_KEY}
        THEN ret = Return(Undefined)
        ELSE /\ ret.t = "return"
             /\ ret.v.t = "array"
             /\ Len(ret.v.a) >= 1

\* C9 amended: normalizeTarget(target) is undefined exactly when target is
\* undefined or the targetless sentinel; an array target is returned as it
\* is, with no elements when it has none, and any other target as the
\* one-element array of it.
C9_NormalizeTarget ==
    Finished("normalizeTarget") =>
        IF call.args[1] \in {Undefined, TARGETLESS_KEY}
        THEN ret = Return(Undefined)
        ELSE /\ ret.t = "return"
             /\ ret.v.t = "array"
             /\ IF call.args[1].t = "array"
                THEN ret.v = call.args[1]
                ELSE ret.v.a = <<call.args[1]>>
             /\ (Len(ret.v.a) = 0) = (call.args[1] = Arr(<<>>))

C9_Witness ==
    /\ Finished("normalizeTarget")
    /\ call.args[1] = Arr(<<>>)
    /\ ret = Return(Arr(<<>>))

=============================================================================
